---- MODULE Spec2Model ----
(***************************************************************************)
(* State-machine model of src/src/train.py: the generalized training loop  *)
(* (train), its helpers (params_defined, fetch_nonempty_sample,            *)
(* make_variables, eval_error, update_model, log_errors, log_elapsed_time, *)
(* save_checkpoint) and the validation runner (run_validation).            *)
(*                                                                         *)
(* train_utils (LearningMonitor, SampleSpec, masks_not_empty,              *)
(* make_variable) is imported by train.py but is not part of the source    *)
(* tree; its operations are modelled from sections 4.1, 4.2 and 4.5 of the *)
(* specification.                                                          *)
(***************************************************************************)
EXTENDS Integers, Sequences, FiniteSets, TLC

VARIABLES
    params,       \* the **params keyword dictionary of train (key -> value)
    last_iter,    \* train's last_iter argument
    has_val,      \* val_sampler is not None
    fields,       \* the fields of the samples the samplers produce: name -> shape
    pc,           \* position of the control flow
    err,          \* exception that ended the call ("" if none)
    i,            \* loop variable of train
    sample_spec,  \* utils.SampleSpec built at line 34
    loc,          \* locals of the running pass: sample, preds, labels, masks, losses, nmsks
    rejects,      \* draws rejected so far by the running fetch_nonempty_sample
    drawn,        \* samples drawn so far by the running fetch_nonempty_sample
    clk,          \* logical time since train's `start` was last set; a call of
                  \* the model takes one unit of time, everything else none
    vi,           \* loop variable of run_validation
    vclk,         \* logical time since run_validation's `start` was last set
    vloc,         \* locals of the running validation pass, and whether `losses` is bound
    monitor,      \* utils.LearningMonitor instance owned by train
    disk,         \* artifacts under expt_dir: model and stats files by index
    eff,          \* observable effects of the call, in order of occurrence
    resumed       \* train has been called again after a checkpointed run

vars == <<params, last_iter, has_val, fields, pc, err, i, sample_spec, loc,
          rejects, drawn, clk, vi, vclk, vloc, monitor, disk, eff, resumed>>

----------------------------------------------------------------------------
(* Bounds of the model *)

MaxIter == 3        \* max_iter ranges over 0..MaxIter
MaxLast == 1        \* last_iter ranges over 0..MaxLast
MaxIntv == 2        \* test_intv, avgs_intv, chkpt_intv range over 1..MaxIntv
MaxTestIter == 1    \* test_iter ranges over 0..MaxTestIter
MaxRejects == 1     \* rejected draws per fetch before the sampler must deliver
MaxLoss == 2        \* loss_fn returns a value in 1..MaxLoss
MaskLen == 2        \* elements of a mask array
MaxLabelLen == 1    \* elements of a label array range over 1..MaxLabelLen

----------------------------------------------------------------------------
(* Generic helpers *)

Range(s) == {s[k] : k \in DOMAIN s}

RECURSIVE SumSeq(_)
SumSeq(s) == IF s = <<>> THEN 0 ELSE Head(s) + SumSeq(Tail(s))

RECURSIVE ProdSeq(_)
ProdSeq(s) == IF s = <<>> THEN 1 ELSE Head(s) * ProdSeq(Tail(s))

RECURSIVE Gcd(_, _)
Gcd(a, b) == IF b = 0 THEN a ELSE Gcd(b, a % b)

IndexOf(s, x) == CHOOSE k \in DOMAIN s : s[k] = x

\* sum(d.values()) of a dictionary
RECURSIVE DictSum(_)
DictSum(d) ==
    IF DOMAIN d = {} THEN 0
    ELSE LET k == CHOOSE x \in DOMAIN d : TRUE
         IN  d[k] + DictSum([x \in DOMAIN d \ {k} |-> d[x]])

----------------------------------------------------------------------------
(* Arrays: a shape and the flattened elements *)

Array(shape, data) == [shape |-> shape, data |-> data]

\* numpy: v.sum() / mask.sum()
ArraySum(a) == SumSeq(a.data)

\* np.prod(label.size())
SizeProd(a) == ProdSeq(a.shape)

\* np.expand_dims(v, axis=0)
expand_dims(a) == Array(<<1>> \o a.shape, a.data)

\* an array of the shape whose elements are all zero
Zeros(shape) == Array(shape, [k \in 1..ProdSeq(shape) |-> 0])

\* the shapes of the labels that have no mask
LabelShapes == {<<n>> : n \in 1..MaxLabelLen} \cup {<<n, 2>> : n \in 1..MaxLabelLen}

\* the shape of a mask and of the label it belongs to
MaskShape == <<MaskLen>>

----------------------------------------------------------------------------
(* utils.SampleSpec: classification of field names by naming convention *)

FieldOrder == <<"input", "affinity", "affinity_mask", "boundary", "boundary_mask">>

IsMaskName(n) == n \in {"affinity_mask", "boundary_mask"}

IsLabelName(n) == n \in {"affinity", "boundary"}

MaskNameOf(l) == IF l = "affinity" THEN "affinity_mask" ELSE "boundary_mask"

SampleSpec(ks) ==
    LET present(n) == n \in ks
        lab(n) == present(n) /\ IsLabelName(n)
        msk(n) == present(n) /\ IsMaskName(n)
        inp(n) == present(n) /\ ~IsLabelName(n) /\ ~IsMaskName(n)
    IN  [inputs |-> SelectSeq(FieldOrder, inp),
         labels |-> SelectSeq(FieldOrder, lab),
         masks  |-> SelectSeq(FieldOrder, msk)]

get_inputs(spec) == spec.inputs
get_labels(spec) == spec.labels
get_masks(spec) == spec.masks

has_mask(spec, l) == MaskNameOf(l) \in Range(spec.masks)

\* position (from 0) of the label's mask in get_masks()
get_mask_index(spec, l) == IndexOf(spec.masks, MaskNameOf(l)) - 1

\* the samples sampler.get() can return for a sampler with the fields f: the
\* masks hold any zeros and ones (the values of the other fields play no role
\* and are zero)
SamplesOf(f) ==
    LET mks == {n \in DOMAIN f : IsMaskName(n)}
    IN  {[n \in DOMAIN f |-> IF n \in mks THEN Array(f[n], md[n]) ELSE Zeros(f[n])] :
            md \in [mks -> [1..MaskLen -> 0..1]]}

\* the samplers over a set of field names: a mask and its label have the
\* shape of a mask, a label without a mask has any of the label shapes
SamplersOver(ks) ==
    {f \in [ks -> LabelShapes \cup {MaskShape, <<1>>}] :
        \A n \in ks :
            IF IsMaskName(n) THEN f[n] = MaskShape
            ELSE IF IsLabelName(n)
                 THEN IF MaskNameOf(n) \in ks THEN f[n] = MaskShape
                      ELSE f[n] \in LabelShapes
            ELSE f[n] = <<1>>}

----------------------------------------------------------------------------
(* utils.LearningMonitor: per-phase, per-metric running numerator and       *)
(* denominator, and the history of flushed averages                         *)

Phases == {"train", "test"}

EmptyDict == [k \in {} |-> 0]

DictAdd(acc, vals) ==
    [k \in DOMAIN acc \cup DOMAIN vals |->
        (IF k \in DOMAIN acc THEN acc[k] ELSE 0)
      + (IF k \in DOMAIN vals THEN vals[k] ELSE 0)]

\* numerator / denominator as a reduced fraction <<n, d>>
Avg(n, d) == LET g == Gcd(n, d) IN <<n \div g, d \div g>>

\* utils.LearningMonitor()
LearningMonitor ==
    [num   |-> [ph \in Phases |-> EmptyDict],
     denom |-> [ph \in Phases |-> EmptyDict],
     hist  |-> [ph \in Phases |-> EmptyDict]]

add_to_num(m, vals, ph) == [m EXCEPT !.num[ph] = DictAdd(@, vals)]

add_to_denom(m, vals, ph) == [m EXCEPT !.denom[ph] = DictAdd(@, vals)]

\* the metrics compute_avgs flushes: those with a nonzero denominator
Flushed(m, ph) == {k \in DOMAIN m.denom[ph] : m.denom[ph][k] # 0}

NumOf(m, k, ph) == IF k \in DOMAIN m.num[ph] THEN m.num[ph][k] ELSE 0

HistOf(m, k, ph) == IF k \in DOMAIN m.hist[ph] THEN m.hist[ph][k] ELSE <<>>

compute_avgs(m, it, ph) ==
    LET fl == Flushed(m, ph)
    IN  [num   |-> [m.num EXCEPT ![ph] =
                       [k \in DOMAIN @ |-> IF k \in fl THEN 0 ELSE @[k]]],
         denom |-> [m.denom EXCEPT ![ph] =
                       [k \in DOMAIN @ |-> IF k \in fl THEN 0 ELSE @[k]]],
         hist  |-> [m.hist EXCEPT ![ph] =
                       [k \in DOMAIN @ \cup fl |->
                           IF k \in fl
                           THEN Append(HistOf(m, k, ph),
                                       <<it, Avg(NumOf(m, k, ph), m.denom[ph][k])>>)
                           ELSE @[k]]]]

\* get_last_value fails when the metric has no history entry
has_last_value(m, k, ph) == HistOf(m, k, ph) # <<>>

get_last_value(m, k, ph) == LET h == HistOf(m, k, ph) IN h[Len(h)][2]

\* monitor.save(fname, i): the complete history of both phases
save(m) == m.hist

----------------------------------------------------------------------------
(* Configuration *)

required_params == <<"max_iter", "test_intv", "test_iter",
                     "avgs_intv", "chkpt_intv", "expt_dir">>

\* a plausible slip: `return True` inside the loop, so only the first
\* required option is looked at
params_defined_FirstOnly(p) == required_params[1] \in DOMAIN p

params_defined(p) ==
    \A k \in 1..Len(required_params) : required_params[k] \in DOMAIN p

\* the dictionaries passed as **params: any subset of the required options
\* that lacks at most one of them, with or without an option train ignores
FullParams ==
    [max_iter : 0..MaxIter, test_intv : 1..MaxIntv, test_iter : 0..MaxTestIter,
     avgs_intv : 1..MaxIntv, chkpt_intv : 1..MaxIntv, expt_dir : {0}, lr : {0}]

KeySets ==
    LET req == Range(required_params)
    IN  {req, req \cup {"lr"}} \cup {req \ {k} : k \in req}

ParamDicts == {[k \in ks |-> f[k]] : f \in FullParams, ks \in KeySets}

----------------------------------------------------------------------------
(* fetch_nonempty_sample *)

\* utils.masks_not_empty(sample, masks): the condition under which the
\* fetcher draws again, i.e. some named mask has no non-zero element
masks_not_empty(sample, masks) ==
    \E k \in 1..Len(masks) :
        \A e \in 1..Len(sample[masks[k]].data) : sample[masks[k]].data[e] = 0

\* a plausible slip: the loop condition with the opposite polarity
RetryNeeded_Inverted(sample, masks) == ~masks_not_empty(sample, masks)

\* the loop condition of line 177
RetryNeeded(sample, masks) == masks_not_empty(sample, masks)

\* lines 181-182: every field gets a leading dimension of size 1
AddBatchDim(sample) == [k \in DOMAIN sample |-> expand_dims(sample[k])]

----------------------------------------------------------------------------
(* make_variables, eval_error, log_errors, log_elapsed_time *)

make_variables(sample, spec) ==
    [inputs |-> [k \in 1..Len(get_inputs(spec)) |-> sample[get_inputs(spec)[k]]],
     labels |-> [k \in 1..Len(get_labels(spec)) |-> sample[get_labels(spec)[k]]],
     masks  |-> [k \in 1..Len(get_masks(spec))  |-> sample[get_masks(spec)[k]]]]

Put(d, k, v) == [x \in DOMAIN d \cup {k} |-> IF x = k THEN v ELSE d[x]]

\* a plausible slip: the mask of a masked label is not used for the count
label_count_IgnoreMask(j, labels, masks, spec) == SizeProd(labels[j])

\* lines 127-138: the normalisation count of the label at position j
label_count(j, labels, masks, spec) ==
    IF has_mask(spec, get_labels(spec)[j])
    THEN ArraySum(masks[get_mask_index(spec, get_labels(spec)[j]) + 1])
    ELSE SizeProd(labels[j])

\* a plausible slip: the count is recorded in the masked branch only
eval_step_MaskedCountOnly(acc, j, labels, masks, lv, spec) ==
    LET name == get_labels(spec)[j]
    IN  [losses |-> Put(acc.losses, name, lv[j]),
         nmsks  |-> IF has_mask(spec, name)
                    THEN Put(acc.nmsks, name, label_count(j, labels, masks, spec))
                    ELSE acc.nmsks]

\* lines 124-138: one pass of the loop of eval_error; lv[j] is what loss_fn
\* returns for position j
eval_step(acc, j, labels, masks, lv, spec) ==
    LET name == get_labels(spec)[j]
    IN  [losses |-> Put(acc.losses, name, lv[j]),
         nmsks  |-> Put(acc.nmsks, name, label_count(j, labels, masks, spec))]

RECURSIVE eval_loop(_, _, _, _, _, _, _)
eval_loop(acc, j, n, labels, masks, lv, spec) ==
    IF j > n THEN acc
    ELSE eval_loop(eval_step(acc, j, labels, masks, lv, spec),
                   j + 1, n, labels, masks, lv, spec)

\* a plausible slip: fewer predictions than labels are let through
eval_error_ok_AtMost(preds, labels, spec) ==
    /\ Len(get_labels(spec)) = Len(labels)
    /\ Len(preds) <= Len(labels)

\* the two assertions of lines 117-118
eval_error_ok(preds, labels, spec) ==
    /\ Len(get_labels(spec)) = Len(labels)
    /\ Len(preds) = Len(labels)

eval_error(preds, labels, masks, lv, spec) ==
    eval_loop([losses |-> EmptyDict, nmsks |-> EmptyDict],
              1, Len(preds), labels, masks, lv, spec)

\* line 102: the objective is the unweighted sum of the task losses
total_loss(losses) == DictSum(losses)

\* a plausible slip: the gradients of the previous iteration are not cleared
update_model_NoZeroGrad(e) ==
    [e EXCEPT !.opt_steps = @ + 1, !.opt_log = @ \o <<"backward", "step">>]

\* lines 101-104: the calls update_model makes, in order
update_model(e) ==
    [e EXCEPT !.opt_steps = @ + 1,
              !.opt_log = @ \o <<"zero_grad", "backward", "step">>]

\* the assertion of line 89
log_errors_ok(losses, nmsks) == DOMAIN losses = DOMAIN nmsks

log_errors(m, losses, nmsks, ph) ==
    add_to_denom(add_to_num(m, losses, ph), nmsks, ph)

log_elapsed_time(m, elapsed, ph) ==
    add_to_denom(add_to_num(m, "iter_time" :> elapsed, ph), "iter_time" :> 1, ph)

----------------------------------------------------------------------------
(* Initial state: train has been called and nothing has run yet *)

\* the field names of the samplers the training loop is run with
TrainSchemas == {{"input", "affinity", "affinity_mask"}}

keys == DOMAIN fields

NoLocals ==
    [sample |-> EmptyDict, preds |-> <<>>, labels |-> <<>>, masks |-> <<>>,
     losses |-> EmptyDict, nmsks |-> EmptyDict, bound |-> FALSE,
     total_loss |-> 0]       \* total_loss of update_model

NoEffects ==
    [sampled |-> FALSE,      \* sampler.get() has been called
     val_sampled |-> FALSE,  \* val_sampler.get() has been called
     model_calls |-> 0,      \* calls of model(*inputs)
     opt_steps |-> 0,        \* calls of optimizer.step()
     opt_log |-> <<>>,       \* calls on the optimizer and on total_loss, in order
     body |-> <<>>,          \* values of i the loop body was entered with
     vals |-> <<>>,          \* values of i run_validation was called with
     val_flushes |-> <<>>,   \* values of iter_num compute_avgs(iter_num, "test") was called with
     flushes |-> <<>>,       \* values of i the train averages were flushed and printed at
     chkpts |-> <<>>]        \* values of i save_checkpoint completed at

NoDisk == [models |-> {}, stats |-> EmptyDict]

InitWith(P) ==
    /\ params \in P
    /\ last_iter \in 0..MaxLast
    /\ has_val \in BOOLEAN
    /\ \E ks \in TrainSchemas : fields \in SamplersOver(ks)
    /\ pc = "start"
    /\ err = ""
    /\ i = last_iter
    /\ sample_spec = SampleSpec({})
    /\ loc = NoLocals
    /\ vloc = NoLocals
    /\ rejects = 0
    /\ drawn = <<>>
    /\ clk = 0
    /\ vi = 0
    /\ vclk = 0
    /\ monitor = LearningMonitor
    /\ disk = NoDisk
    /\ eff = NoEffects
    /\ resumed = FALSE

Init == InitWith(ParamDicts)

----------------------------------------------------------------------------
(* The cadence guards of train and the loop bounds *)

\* line 39: range(last_iter, max_iter) still holds j
InRange(j) == j < params["max_iter"]

\* a plausible slip: validation guarded like the flush and the checkpoint
ValidationDue_NotAtLast(j) ==
    has_val /\ j % params["test_intv"] = 0 /\ j # last_iter

\* line 60
ValidationDue(j) == has_val /\ j % params["test_intv"] = 0

\* a plausible slip: the guard against the first iteration left out
AvgsDue_NoLastGuard(j) == j % params["avgs_intv"] = 0

\* line 65
AvgsDue(j) == j % params["avgs_intv"] = 0 /\ j # last_iter

\* a plausible slip: the checkpoint not guarded against the first iteration
ChkptDue_NoLastGuard(j) == j % params["chkpt_intv"] = 0

\* line 74
ChkptDue(j) == j % params["chkpt_intv"] = 0 /\ j # last_iter

\* a plausible slip: one pass more than num_iters
ValInRange_Inclusive(v) == v <= params["test_iter"]

\* line 209: range(num_iters) still holds v
ValInRange(v) == v < params["test_iter"]

\* a plausible slip: the flush of run_validation into the wrong phase
val_flush_TrainPhase(m, iter_num, v) == compute_avgs(m, iter_num, "train")

\* a plausible slip: run_validation's own loop variable, also named i,
\* taken for the iteration of the training loop
val_flush_InnerIndex(m, iter_num, v) == compute_avgs(m, v, "test")

\* line 228 (v is run_validation's loop variable, not used by the call)
val_flush(m, iter_num, v) == compute_avgs(m, iter_num, "test")

\* a plausible slip: the flush of the training loop into the wrong phase
train_flush_TestPhase(m, j) == compute_avgs(m, j, "test")

\* a plausible slip: the averages are appended and the accumulators kept
train_flush_NoReset(m, j) ==
    [compute_avgs(m, j, "train") EXCEPT !.num = m.num, !.denom = m.denom]

\* line 66
train_flush(m, j) == compute_avgs(m, j, "train")

\* line 146: the model artifact is named by the index it is saved at
ckpt_fname(j) == j

\* a plausible slip: the statistics artifact named by the next index
stats_fname_Next(j) == j + 1

\* line 150: the statistics artifact is named by the index it is saved at
stats_fname(j) == j

\* a plausible slip: line 63 left out, the clock runs on from line 58
restart_after_validation_Missing(c) == c

\* line 63: start = time.time() after run_validation has returned
restart_after_validation(c) == 0

\* lines 69-71 and 229-230: the metrics whose last value is printed
Reported(losses) == DOMAIN losses \cup {"iter_time"}

Raise(e) == pc' = "error" /\ err' = e

\* the lengths of the list model(*inputs) can return when the sample has n
\* labels: n for a model that matches the sampler, one fewer or one more for
\* one that does not
PredCounts(n) == {k \in {n - 1, n, n + 1} : k >= 0}

\* the loop of train moves on to j: the body is entered or the loop ends
LoopTo(j, e) ==
    /\ i' = j
    /\ IF InRange(j)
       THEN pc' = "fetch" /\ eff' = [e EXCEPT !.body = Append(@, j)]
       ELSE pc' = "done" /\ eff' = e

----------------------------------------------------------------------------
(* train, lines 25-76 *)

call == <<params, last_iter, has_val, fields, resumed>>
valstate == <<vi, vclk, vloc>>

\* lines 28-31: the configuration check, then the monitor is created
Start ==
    /\ pc = "start"
    /\ IF params_defined(params)
       THEN pc' = "spec" /\ err' = err /\ monitor' = LearningMonitor
       ELSE Raise("AssertionError") /\ monitor' = monitor
    /\ UNCHANGED <<call, i, sample_spec, loc, rejects, drawn, clk, valstate, disk, eff>>

\* lines 34-39: one sample is drawn for its field names, the clock starts
BuildSpec ==
    /\ pc = "spec"
    /\ sample_spec' = SampleSpec(keys)
    /\ clk' = 0
    /\ LoopTo(last_iter, [eff EXCEPT !.sampled = TRUE])
    /\ UNCHANGED <<call, err, loc, rejects, drawn, valstate, monitor, disk>>

\* line 42 and lines 174-184: one draw of fetch_nonempty_sample; the draw
\* is rejected and the loop goes on, or it is returned with a batch dimension
TrainFetch ==
    /\ pc = "fetch"
    /\ \E s \in SamplesOf(fields) :
        /\ drawn' = Append(drawn, s)
        /\ IF RetryNeeded(s, get_masks(sample_spec))
           THEN /\ rejects < MaxRejects
                /\ rejects' = rejects + 1
                /\ UNCHANGED <<pc, loc>>
           ELSE /\ rejects' = 0
                /\ loc' = [NoLocals EXCEPT !.sample = AddBatchDim(s)]
                /\ pc' = "forward"
    /\ UNCHANGED clk
    /\ UNCHANGED <<call, err, i, sample_spec, valstate, monitor, disk, eff>>

\* lines 44-47: the sample is split by role and the model is called; it
\* returns a list of predictions, one per label if it matches the sampler
Forward ==
    /\ pc = "forward"
    /\ LET v == make_variables(loc.sample, sample_spec)
       IN  \E n \in PredCounts(Len(v.labels)) :
              loc' = [NoLocals EXCEPT !.labels = v.labels, !.masks = v.masks,
                                      !.preds = [k \in 1..n |-> "pred"]]
    /\ eff' = [eff EXCEPT !.model_calls = @ + 1]
    /\ drawn' = <<>>
    /\ clk' = clk + 1
    /\ pc' = "eval"
    /\ UNCHANGED <<call, err, i, sample_spec, rejects, valstate, monitor, disk>>

\* line 49
EvalError ==
    /\ pc = "eval"
    /\ IF eval_error_ok(loc.preds, loc.labels, sample_spec)
       THEN \E lv \in [1..Len(loc.preds) -> 1..MaxLoss] :
               LET r == eval_error(loc.preds, loc.labels, loc.masks, lv, sample_spec)
               IN  /\ loc' = [NoLocals EXCEPT !.losses = r.losses,
                                              !.nmsks = r.nmsks, !.bound = TRUE]
                   /\ pc' = "update" /\ err' = err
       ELSE Raise("AssertionError") /\ loc' = loc
    /\ UNCHANGED clk
    /\ UNCHANGED <<call, i, sample_spec, rejects, drawn, valstate, monitor, disk, eff>>

\* line 51 and lines 99-104
UpdateModel ==
    /\ pc = "update"
    /\ eff' = update_model(eff)
    /\ loc' = [loc EXCEPT !.total_loss = total_loss(loc.losses)]
    /\ UNCHANGED clk
    /\ pc' = "log"
    /\ UNCHANGED <<call, err, i, sample_spec, rejects, drawn, valstate, monitor, disk>>

\* lines 53-58: the losses, the counts and the elapsed time go into the
\* "train" phase, and the clock is set again
LogTrain ==
    /\ pc = "log"
    /\ IF log_errors_ok(loc.losses, loc.nmsks)
       THEN /\ monitor' = log_elapsed_time(
                              log_errors(monitor, loc.losses, loc.nmsks, "train"),
                              clk, "train")
            /\ clk' = 0
            /\ pc' = "test" /\ err' = err
       ELSE Raise("AssertionError") /\ UNCHANGED <<monitor, clk>>
    /\ UNCHANGED <<call, i, sample_spec, loc, rejects, drawn, valstate, disk, eff>>

\* line 60, and lines 207-209 when run_validation is called
TestGuard ==
    /\ pc = "test"
    /\ IF ValidationDue(i)
       THEN /\ eff' = [eff EXCEPT !.vals = Append(@, i)]
            /\ vi' = 0 /\ vclk' = 0 /\ vloc' = NoLocals
            /\ pc' = IF ValInRange(0) THEN "vfetch" ELSE "vavgs"
       ELSE /\ pc' = "avgs"
            /\ UNCHANGED <<eff, valstate>>
    /\ UNCHANGED clk
    /\ UNCHANGED <<call, err, i, sample_spec, loc, rejects, drawn, monitor, disk>>

\* lines 65-72: the flush of the "train" phase and the print of its averages
TrainAvgs ==
    /\ pc = "avgs"
    /\ IF AvgsDue(i)
       THEN LET m == train_flush(monitor, i)
            IN  /\ monitor' = m
                /\ IF \A k \in Reported(loc.losses) : has_last_value(m, k, "train")
                   THEN /\ eff' = [eff EXCEPT !.flushes = Append(@, i)]
                        /\ pc' = "chkpt" /\ err' = err
                   ELSE Raise("LookupError") /\ eff' = eff
       ELSE /\ pc' = "chkpt"
            /\ UNCHANGED <<monitor, eff, err>>
    /\ UNCHANGED clk
    /\ UNCHANGED <<call, i, sample_spec, loc, rejects, drawn, valstate, disk>>

\* line 74: the checkpoint is due, or the loop moves on
ChkptGuard ==
    /\ pc = "chkpt"
    /\ IF ChkptDue(i)
       THEN pc' = "save_model" /\ UNCHANGED <<i, eff, loc>>
       ELSE LoopTo(i + 1, eff) /\ loc' = NoLocals
    /\ UNCHANGED clk
    /\ UNCHANGED <<call, err, sample_spec, rejects, drawn, valstate, monitor, disk>>

\* lines 146-147: the model artifact of index i is written
SaveModel ==
    /\ pc = "save_model"
    /\ disk' = [disk EXCEPT !.models = @ \cup {ckpt_fname(i)}]
    /\ pc' = "save_stats"
    /\ UNCHANGED clk
    /\ UNCHANGED <<call, err, i, sample_spec, loc, rejects, drawn, valstate, monitor, eff>>

\* lines 150-151: the statistics artifact of index i is written, and the
\* loop moves on
SaveStats ==
    /\ pc = "save_stats"
    /\ disk' = [disk EXCEPT !.stats = Put(@, stats_fname(i), save(monitor))]
    /\ LoopTo(i + 1, [eff EXCEPT !.chkpts = Append(@, i)])
    /\ loc' = NoLocals
    /\ UNCHANGED clk
    /\ UNCHANGED <<call, err, sample_spec, rejects, drawn, valstate, monitor>>

\* torch.save or monitor.save fails: the error is not caught
SaveFails ==
    /\ pc \in {"save_model", "save_stats"}
    /\ Raise("IOError")
    /\ UNCHANGED <<call, i, sample_spec, loc, rejects, drawn, clk, valstate,
                   monitor, disk, eff>>

----------------------------------------------------------------------------
(* run_validation, lines 205-232, called from line 61 *)

\* line 212 and lines 174-184: one draw of fetch_nonempty_sample
ValFetch ==
    /\ pc = "vfetch"
    /\ \E s \in SamplesOf(fields) :
        /\ drawn' = Append(drawn, s)
        /\ IF RetryNeeded(s, get_masks(sample_spec))
           THEN /\ rejects < MaxRejects
                /\ rejects' = rejects + 1
                /\ UNCHANGED <<pc, vloc>>
           ELSE /\ rejects' = 0
                /\ vloc' = [vloc EXCEPT !.sample = AddBatchDim(s)]
                /\ pc' = "vforward"
    /\ eff' = [eff EXCEPT !.val_sampled = TRUE]
    /\ UNCHANGED <<clk, vclk>>
    /\ UNCHANGED <<call, err, i, sample_spec, loc, vi, monitor, disk>>

\* lines 214-217
ValForward ==
    /\ pc = "vforward"
    /\ LET v == make_variables(vloc.sample, sample_spec)
       IN  \E n \in PredCounts(Len(v.labels)) :
              vloc' = [vloc EXCEPT !.sample = EmptyDict,
                                   !.labels = v.labels, !.masks = v.masks,
                                   !.preds = [k \in 1..n |-> "pred"]]
    /\ eff' = [eff EXCEPT !.model_calls = @ + 1]
    /\ drawn' = <<>>
    /\ clk' = clk + 1 /\ vclk' = vclk + 1
    /\ pc' = "veval"
    /\ UNCHANGED <<call, err, i, sample_spec, loc, rejects, vi, monitor, disk>>

\* line 219
ValEval ==
    /\ pc = "veval"
    /\ IF eval_error_ok(vloc.preds, vloc.labels, sample_spec)
       THEN \E lv \in [1..Len(vloc.preds) -> 1..MaxLoss] :
               LET r == eval_error(vloc.preds, vloc.labels, vloc.masks, lv, sample_spec)
               IN  /\ vloc' = [NoLocals EXCEPT !.losses = r.losses,
                                               !.nmsks = r.nmsks, !.bound = TRUE]
                   /\ pc' = "vlog" /\ err' = err
       ELSE Raise("AssertionError") /\ vloc' = vloc
    /\ UNCHANGED <<clk, vclk>>
    /\ UNCHANGED <<call, i, sample_spec, loc, rejects, drawn, vi, monitor, disk, eff>>

\* lines 221-226, and the loop of line 209 moves on
ValLog ==
    /\ pc = "vlog"
    /\ IF log_errors_ok(vloc.losses, vloc.nmsks)
       THEN /\ monitor' = log_elapsed_time(
                              log_errors(monitor, vloc.losses, vloc.nmsks, "test"),
                              vclk, "test")
            /\ vclk' = 0
            /\ vi' = vi + 1
            /\ vloc' = [vloc EXCEPT !.nmsks = EmptyDict]
            /\ pc' = IF ValInRange(vi + 1) THEN "vfetch" ELSE "vavgs"
            /\ err' = err
       ELSE Raise("AssertionError") /\ UNCHANGED <<monitor, valstate>>
    /\ UNCHANGED clk
    /\ UNCHANGED <<call, i, sample_spec, loc, rejects, drawn, disk, eff>>

\* lines 228-232: the flush of the "test" phase and the report; `losses` is
\* bound only if the loop ran at least once. Then line 63 sets train's clock.
ValAvgs ==
    /\ pc = "vavgs"
    /\ LET m == val_flush(monitor, i, vi - 1)
       IN  /\ monitor' = m
           /\ eff' = [eff EXCEPT !.val_flushes = Append(@, i)]
           /\ IF ~vloc.bound
              THEN Raise("NameError") /\ UNCHANGED <<clk, vloc>>
              ELSE IF \A k \in Reported(vloc.losses) : has_last_value(m, k, "test")
              THEN /\ pc' = "avgs" /\ err' = err
                   /\ clk' = restart_after_validation(clk)
                   /\ vloc' = NoLocals
              ELSE Raise("LookupError") /\ UNCHANGED <<clk, vloc>>
    /\ UNCHANGED <<call, i, sample_spec, loc, rejects, drawn, vi, vclk, disk>>

----------------------------------------------------------------------------
(* train is called again to resume a run that has ended: last_iter = k,     *)
(* the index of the last statistics artifact that run wrote                 *)

Resume ==
    /\ pc \in {"done", "error"}
    /\ ~resumed
    /\ \E k \in DOMAIN disk.stats :
        /\ \A j \in DOMAIN disk.stats : j <= k
        /\ last_iter' = k
        /\ i' = k
    /\ resumed' = TRUE
    /\ pc' = "start"
    /\ err' = ""
    /\ loc' = NoLocals /\ vloc' = NoLocals
    /\ rejects' = 0 /\ drawn' = <<>> /\ clk' = 0 /\ vi' = 0 /\ vclk' = 0
    /\ eff' = NoEffects
    /\ UNCHANGED <<params, has_val, fields, sample_spec, monitor, disk>>

----------------------------------------------------------------------------
(* Specifications *)

Next ==
    \/ Start \/ BuildSpec
    \/ TrainFetch \/ Forward \/ EvalError \/ UpdateModel \/ LogTrain
    \/ TestGuard \/ ValFetch \/ ValForward \/ ValEval \/ ValLog \/ ValAvgs
    \/ TrainAvgs \/ ChkptGuard \/ SaveModel \/ SaveStats \/ SaveFails

Spec == Init /\ [][Next]_vars

\* the run max_iter = 10, avgs_intv = 5, chkpt_intv = 5, test_intv = 100,
\* last_iter = 0 without a validation sampler
ExampleParams ==
    [max_iter |-> 10, test_intv |-> 100, test_iter |-> 1, avgs_intv |-> 5,
     chkpt_intv |-> 5, expt_dir |-> 0]

InitExample == InitWith({ExampleParams}) /\ last_iter = 0 /\ ~has_val

\* train over the bounded configurations and over the example run
SpecExample == (Init \/ InitExample) /\ [][Next]_vars

\* a first run from scratch, and train called once more to resume from a
\* checkpoint that run wrote
InitResume == Init /\ DOMAIN params = Range(required_params) /\ last_iter = 0

SpecResume == InitResume /\ [][Next \/ Resume]_vars

----------------------------------------------------------------------------
(* fetch_nonempty_sample and eval_error on their own: the call is entered  *)
(* with arguments drawn from all the schemas, and runs to its return       *)

AllSchemas == {{"input", "affinity", "affinity_mask"},
               {"input", "affinity", "boundary", "boundary_mask"},
               {"input", "affinity", "affinity_mask", "boundary"},
               {"input", "affinity", "affinity_mask", "boundary", "boundary_mask"},
               {"input", "boundary"}}

SomeParams ==
    [max_iter |-> 1, test_intv |-> 1, test_iter |-> 1, avgs_intv |-> 1,
     chkpt_intv |-> 1, expt_dir |-> 0]

InCall(at) ==
    /\ params = SomeParams
    /\ last_iter = 0
    /\ has_val = FALSE
    /\ \E ks \in AllSchemas : fields \in SamplersOver(ks)
    /\ pc = at
    /\ err = ""
    /\ i = 0
    /\ sample_spec = SampleSpec(keys)
    /\ vloc = NoLocals
    /\ rejects = 0
    /\ drawn = <<>>
    /\ clk = 0
    /\ vi = 0
    /\ vclk = 0
    /\ monitor = LearningMonitor
    /\ disk = NoDisk
    /\ eff = NoEffects
    /\ resumed = FALSE

InitFetch == InCall("fetch") /\ loc = NoLocals

SpecFetch == InitFetch /\ [][TrainFetch]_vars

Prefixes(q) == {SubSeq(q, 1, n) : n \in 0..Len(q)}

\* eval_error is entered with the labels and masks make_variables gives for
\* some sample, or with fewer labels, and with any number of predictions
InitEval ==
    /\ InCall("eval")
    /\ \E s \in SamplesOf(fields) :
         LET v == make_variables(AddBatchDim(s), sample_spec)
         IN  \E ls \in Prefixes(v.labels), n \in 0..(Len(v.labels) + 1) :
                loc = [NoLocals EXCEPT !.labels = ls, !.masks = v.masks,
                                       !.preds = [k \in 1..n |-> "pred"]]

SpecEval == InitEval /\ [][EvalError]_vars

\* train over the bounded configurations, and the iteration that follows a
\* call of eval_error with any such arguments
SpecStages == (Init \/ InitEval) /\ [][Next]_vars

----------------------------------------------------------------------------
(* Properties of fetch_nonempty_sample and eval_error *)

NonEmpty(a) == \E e \in 1..Len(a.data) : a.data[e] # 0

\* C2: when fetch_nonempty_sample returns, the sample it returns is the last
\* one drawn with the batch dimension added, every mask named in masks has a
\* non-zero sum in it, and every earlier draw had a named mask without any
\* non-zero element (it was rejected): the returned sample is the first draw
\* whose named masks are all non-empty.
C2_FetchReturnsFirstNonEmpty ==
    pc = "forward" =>
        LET masks == Range(get_masks(sample_spec))
            n == Len(drawn)
        IN  /\ n >= 1
            /\ loc.sample = AddBatchDim(drawn[n])
            /\ \A m \in masks : ArraySum(loc.sample[m]) # 0
            /\ \A m \in masks : NonEmpty(drawn[n][m])
            /\ \A k \in 1..(n - 1) : \E m \in masks : ~NonEmpty(drawn[k][m])

\* a fetch over two masks that rejected a draw before it returned
C2_Witness ==
    /\ pc = "forward"
    /\ Len(get_masks(sample_spec)) = 2
    /\ Len(drawn) = 2
    /\ \E m \in Range(get_masks(sample_spec)) : ~NonEmpty(drawn[1][m])

\* C3: when eval_error is called with len(preds) = len(labels) =
\* len(get_labels()) = N it returns (no assertion fails), and the losses and
\* the counts it returns have exactly N entries each, both keyed by exactly
\* the label names, so that the assertion of log_errors holds of them.
C3_EvalErrorKeySets ==
    [][(pc = "eval" /\ eval_error_ok(loc.preds, loc.labels, sample_spec)) =>
          LET names == Range(get_labels(sample_spec))
              N == Len(loc.preds)
          IN  /\ pc' = "update"
              /\ DOMAIN loc'.losses = names
              /\ DOMAIN loc'.nmsks = names
              /\ Cardinality(DOMAIN loc'.losses) = N
              /\ Cardinality(DOMAIN loc'.nmsks) = N
              /\ log_errors_ok(loc'.losses, loc'.nmsks)]_vars

\* eval_error has returned for a sample with two labels, one of them unmasked
C3_Witness ==
    /\ pc = "update"
    /\ Cardinality(DOMAIN loc.losses) = 2
    /\ Len(get_masks(sample_spec)) = 1
    /\ DOMAIN loc.nmsks = {"affinity", "boundary"}

\* C4: the count eval_error returns for a label is the sum of the elements
\* of the mask at get_mask_index(label) if the label has a mask, and the
\* number of elements of the label array if it has none.
C4_EvalErrorCounts ==
    [][(pc = "eval" /\ pc' = "update") =>
          \A j \in 1..Len(loc.labels) :
              LET name == get_labels(sample_spec)[j]
              IN  IF has_mask(sample_spec, name)
                  THEN loc'.nmsks[name] =
                         SumSeq(loc.masks[get_mask_index(sample_spec, name) + 1].data)
                  ELSE loc'.nmsks[name] = Len(loc.labels[j].data)]_vars

\* eval_error has returned the count 1 for the masked second label, whose
\* array has two elements, and the count 2 for the unmasked first label
C4_Witness ==
    /\ pc = "update"
    /\ keys = {"input", "affinity", "boundary", "boundary_mask"}
    /\ loc.nmsks["boundary"] = 1
    /\ loc.nmsks["affinity"] = 2

----------------------------------------------------------------------------
(* Properties of the training loop *)

\* all six required options are present in params
Configured == Range(required_params) \subseteq DOMAIN params

NoDuplicates(q) == Cardinality(Range(q)) = Len(q)

\* the iterations of the loop that have run to their end
Completed == last_iter..(i - 1)

\* C1: the train averages are flushed and printed exactly at the iterations
\* i with last_iter < i < max_iter and i % avgs_intv = 0, and a checkpoint is
\* saved exactly at the iterations i with last_iter < i < max_iter and
\* i % chkpt_intv = 0: each of them happens at most once per iteration, only
\* at such iterations, at every such iteration that has run to its end, and
\* so at all of them when train returns.
C1_FlushAndCheckpointCadence ==
    Configured =>
        LET due(n) == {j \in (last_iter + 1)..(params["max_iter"] - 1) : j % n = 0}
            flushes == Range(eff.flushes)
            chkpts == Range(eff.chkpts)
        IN  /\ NoDuplicates(eff.flushes) /\ NoDuplicates(eff.chkpts)
            /\ flushes \subseteq due(params["avgs_intv"])
            /\ chkpts \subseteq due(params["chkpt_intv"])
            /\ flushes \cap Completed = due(params["avgs_intv"]) \cap Completed
            /\ chkpts \cap Completed = due(params["chkpt_intv"]) \cap Completed
            /\ pc = "done" => /\ flushes = due(params["avgs_intv"])
                              /\ chkpts = due(params["chkpt_intv"])

\* the run max_iter = 10, avgs_intv = chkpt_intv = 5, test_intv = 100,
\* last_iter = 0 without a validation sampler has returned: one print and one
\* checkpoint, both at 5, and no validation
C1_Witness ==
    /\ pc = "done"
    /\ params = ExampleParams
    /\ eff.flushes = <<5>>
    /\ eff.chkpts = <<5>>
    /\ eff.vals = << >>
    /\ Len(eff.body) = 10

\* C5: if one of the six required options is absent, train fails at the
\* configuration check and nothing has happened: no sample drawn from either
\* sampler, no model call, no optimizer step, nothing written. If all six
\* are present, whatever else params holds, the configuration check passes.
C5_FailFastConfiguration ==
    /\ ~Configured =>
          /\ pc \in {"start", "error"}
          /\ pc = "error" => err = "AssertionError"
          /\ eff = NoEffects
          /\ disk = NoDisk
          /\ monitor = LearningMonitor
    /\ Configured /\ pc # "start" => (pc = "spec" \/ eff.sampled)

\* train has failed for the absent expt_dir, all the other options present
C5_Witness ==
    /\ pc = "error"
    /\ err = "AssertionError"
    /\ DOMAIN params = Range(required_params) \ {"expt_dir"}
    /\ ~eff.sampled

\* the step is a flush of the phase: line 66 for "train", line 228 for "test"
FlushOf(ph) ==
    IF ph = "train" THEN pc = "avgs" /\ AvgsDue(i) ELSE pc = "vavgs"

\* C6: a flush of a phase leaves numerator and denominator of every metric
\* it flushed at zero, and the last value of the metric is the average it
\* appended (for the iteration of the flush); no other step changes the
\* history of the phase, so the last value stays what the last flush made it
\* while add_to_num and add_to_denom add to the accumulators.
C6_FlushResetsAndLastValue ==
    [][\A ph \in Phases :
          IF FlushOf(ph)
          THEN \A k \in DOMAIN monitor.denom[ph] :
                  monitor.denom[ph][k] # 0 =>
                      /\ monitor'.num[ph][k] = 0
                      /\ monitor'.denom[ph][k] = 0
                      /\ has_last_value(monitor', k, ph)
                      /\ get_last_value(monitor', k, ph) =
                            Avg(monitor.num[ph][k], monitor.denom[ph][k])
                      /\ HistOf(monitor', k, ph)[Len(HistOf(monitor', k, ph))][1] = i
          ELSE monitor'.hist[ph] = monitor.hist[ph]]_vars

\* after a flush of "train", an iteration has added to the accumulators, and
\* the last value is not the average they would give
C6_Witness ==
    /\ pc = "test"
    /\ has_last_value(monitor, "affinity", "train")
    /\ monitor.denom["train"]["affinity"] > 0
    /\ get_last_value(monitor, "affinity", "train")
         # Avg(monitor.num["train"]["affinity"], monitor.denom["train"]["affinity"])

\* C7: with a validation sampler, run_validation is called exactly at the
\* iterations i with last_iter <= i < max_iter and i % test_intv = 0, the
\* iteration last_iter included (the flush and the checkpoint leave it
\* out); without one it is never called, and the "test" phase gets no
\* contribution and no history entry.
C7_ValidationCadence ==
    Configured =>
        LET due == {j \in last_iter..(params["max_iter"] - 1) :
                       j % params["test_intv"] = 0}
            vals == Range(eff.vals)
        IN  /\ NoDuplicates(eff.vals)
            /\ has_val => /\ vals \subseteq due
                          /\ vals \cap Completed = due \cap Completed
                          /\ pc = "done" => vals = due
            /\ ~has_val => /\ eff.vals = <<>>
                           /\ ~eff.val_sampled
                           /\ monitor.num["test"] = EmptyDict
                           /\ monitor.denom["test"] = EmptyDict
                           /\ monitor.hist["test"] = EmptyDict

\* a run from last_iter = 1 with every interval 1 has returned: validation
\* ran at 1 and 2, the flush and the checkpoint at 2 only
C7_Witness ==
    /\ pc = "done"
    /\ has_val
    /\ last_iter = 1
    /\ eff.vals = <<1, 2>>
    /\ eff.flushes = <<2>>
    /\ eff.chkpts = <<2>>

IsPrefix(q, r) == Len(q) <= Len(r) /\ SubSeq(r, 1, Len(q)) = q

StrictlyIncreasing(h) == \A k \in 1..(Len(h) - 1) : h[k][1] < h[k + 1][1]

\* C9: in a run, every step leaves each recorded history a prefix of what it
\* is after the step (entries are only appended), and the iterations of the
\* entries of each metric of each phase increase strictly.
C9_HistoryAppendOnlyIncreasing ==
    [][\A ph \in Phases :
          /\ \A k \in DOMAIN monitor.hist[ph] :
                /\ k \in DOMAIN monitor'.hist[ph]
                /\ IsPrefix(monitor.hist[ph][k], monitor'.hist[ph][k])
          /\ \A k \in DOMAIN monitor'.hist[ph] :
                StrictlyIncreasing(monitor'.hist[ph][k])]_vars

\* two flushes of "train" and two of "test" have been recorded
C9_Witness ==
    /\ Len(HistOf(monitor, "affinity", "train")) >= 2
    /\ Len(HistOf(monitor, "iter_time", "test")) >= 2

\* the values of i from last_iter to max_iter - 1, in increasing order
LoopRange ==
    [k \in 1..(IF params["max_iter"] > last_iter
               THEN params["max_iter"] - last_iter ELSE 0) |-> last_iter + k - 1]

\* C10: when no sampler, model, loss or persistence call fails (no write
\* fails and no call of eval_error fails its assertions), train stops
\* only by the loop reaching max_iter, after the body has run once for each
\* i from last_iter to max_iter - 1, in increasing order.
C10_LoopRunsToMaxIter ==
    /\ Configured /\ pc # "start" /\ pc # "spec" => IsPrefix(eff.body, LoopRange)
    /\ Configured /\ pc \in {"done", "error"}
          /\ err \notin {"IOError", "AssertionError"} =>
          /\ pc = "done"
          /\ eff.body = LoopRange

\* C8: when train is called with last_iter = k after a run that saved the
\* statistics artifact of index k, the monitor it works with holds the
\* history that artifact holds.
C8_ResumeRestoresHistory ==
    resumed /\ pc = "spec" => monitor.hist = disk.stats[last_iter]

----------------------------------------------------------------------------
(* Properties of run_validation within the training loop *)

\* the control flow is inside run_validation
InValidation == pc \in {"vfetch", "vforward", "veval", "vlog", "vavgs"}

\* every numerator and denominator of the phase is zero
AccumulatorsZero(ph) ==
    /\ \A k \in DOMAIN monitor.num[ph] : monitor.num[ph][k] = 0
    /\ \A k \in DOMAIN monitor.denom[ph] : monitor.denom[ph][k] = 0

\* forward passes of the training loop so far
TrainPasses ==
    IF pc \in {"fetch", "forward"} THEN Len(eff.body) - 1 ELSE Len(eff.body)

\* C11: run_validation called at iteration i makes exactly num_iters forward
\* passes (all the model calls that are not the training loop's are num_iters
\* per call of run_validation, and num_iters passes are done when it
\* flushes), no step inside it calls the optimizer or changes a numerator, a
\* denominator or a history entry of "train", and it calls
\* compute_avgs(i, "test") once, after the last pass; so the accumulators of
\* "test" are zero whenever the run is outside run_validation.
C11_ValidationFrame ==
    /\ [](Configured /\ pc # "error" =>
            /\ eff.model_calls - TrainPasses =
                  IF InValidation
                  THEN (Len(eff.vals) - 1) * params["test_iter"] + vi
                          + (IF pc \in {"veval", "vlog"} THEN 1 ELSE 0)
                  ELSE Len(eff.vals) * params["test_iter"]
            /\ eff.val_flushes =
                  IF InValidation THEN SubSeq(eff.vals, 1, Len(eff.vals) - 1)
                  ELSE eff.vals
            /\ ~InValidation => AccumulatorsZero("test"))
    /\ [][/\ InValidation =>
                /\ monitor'.num["train"] = monitor.num["train"]
                /\ monitor'.denom["train"] = monitor.denom["train"]
                /\ monitor'.hist["train"] = monitor.hist["train"]
                /\ eff'.opt_steps = eff.opt_steps
                /\ eff'.opt_log = eff.opt_log
          /\ pc = "vavgs" =>
                /\ vi = params["test_iter"]
                /\ eff'.val_flushes = Append(eff.val_flushes, i)
                /\ eff'.model_calls = eff.model_calls]_vars

\* run_validation has returned for the second time, each time after one
\* pass, with the contributions of two iterations in the "train" accumulators
C11_Witness ==
    /\ pc = "avgs"
    /\ params["test_iter"] = 1
    /\ eff.vals = <<0, 1>>
    /\ eff.val_flushes = <<0, 1>>
    /\ eff.model_calls = 4
    /\ eff.opt_steps = 2
    /\ monitor.denom["train"]["iter_time"] = 2
    /\ Len(HistOf(monitor, "iter_time", "test")) = 2

----------------------------------------------------------------------------
(* Properties of the stages of an iteration *)

\* the last iteration the "train" phase was flushed at (last_iter - 1 if none)
LastTrainFlush ==
    IF eff.flushes = <<>> THEN last_iter - 1 ELSE eff.flushes[Len(eff.flushes)]

\* the iterations up to j that have run since the last flush of "train"
Logged(j) == {k \in last_iter..j : k > LastTrainFlush}

\* the iterations that have added to the "train" accumulators since they
\* were last reset: each adds 1 to the denominator of iter_time
TrainCount ==
    IF "iter_time" \in DOMAIN monitor.denom["train"]
    THEN monitor.denom["train"]["iter_time"] ELSE 0

\* the lists do not match each other or the label names of the sample
Mismatched(preds, labels) ==
    \/ Len(preds) # Len(labels)
    \/ Len(labels) # Len(get_labels(sample_spec))

\* C12: a call of eval_error with len(preds) # len(labels) or len(labels) #
\* len(get_labels()) fails with an AssertionError and no loss is computed; at
\* line 49 of the training loop the run ends there, the iteration has made
\* no optimizer step and no contribution to the monitor, and nothing happens
\* any more: no flush and no checkpoint for that iteration or a later one.
C12_StructuralMismatchAborts ==
    [][/\ (pc = "eval" /\ Mismatched(loc.preds, loc.labels)) =>
              /\ pc' = "error" /\ err' = "AssertionError"
              /\ loc' = loc /\ loc.losses = EmptyDict /\ ~loc.bound
              /\ eff.opt_steps = i - last_iter
              /\ TrainCount = Cardinality(Logged(i - 1))
              /\ i \notin Range(eff.flushes) /\ i \notin Range(eff.chkpts)
              /\ UNCHANGED <<monitor, disk, eff>>
       /\ (pc = "veval" /\ Mismatched(vloc.preds, vloc.labels)) =>
              /\ pc' = "error" /\ err' = "AssertionError"
              /\ vloc' = vloc
              /\ UNCHANGED <<monitor, disk, eff>>
       /\ pc = "error" => UNCHANGED <<pc, monitor, disk, eff>>]_vars

\* the run has ended in the second iteration by the assertion of eval_error
\* on a model that returned two predictions for one label: one optimizer
\* step, that of the first iteration
C12_Witness ==
    /\ pc = "error"
    /\ err = "AssertionError"
    /\ Configured
    /\ Len(eff.body) = 2
    /\ Len(loc.preds) = 2
    /\ Len(loc.labels) = 1
    /\ eff.opt_steps = 1
    /\ eff.model_calls = 2

\* the calls update_model makes once
UpdateCalls == <<"zero_grad", "backward", "step">>

\* the iteration i has passed update_model
Updated == pc \notin {"start", "spec", "fetch", "forward", "eval", "update", "done"}

\* C13: the stages of a training iteration run in the order fetch, forward
\* pass, loss evaluation, update (zero_grad, backward, optimizer step), monitor
\* logging; the optimizer steps once per iteration, in update_model only,
\* after zero_grad and then backward on the sum of all the task losses; when
\* train returns, the optimizer has stepped once for each iteration run.
C13_StageOrder ==
    /\ [](Configured =>
            /\ Len(eff.opt_log) = 3 * eff.opt_steps
            /\ \A k \in 1..Len(eff.opt_log) :
                  eff.opt_log[k] = UpdateCalls[((k - 1) % 3) + 1]
            /\ pc # "error" =>
                  eff.opt_steps = (i - last_iter) + (IF Updated THEN 1 ELSE 0)
            /\ pc = "done" /\ eff.body # <<>> => eff.opt_steps = Len(eff.body))
    /\ [][/\ pc = "fetch" => pc' \in {"fetch", "forward"}
          /\ pc = "forward" => pc' = "eval" /\ eff'.model_calls = eff.model_calls + 1
          /\ pc = "eval" => pc' \in {"update", "error"}
          /\ pc = "update" =>
                /\ pc' = "log"
                /\ eff'.opt_log = eff.opt_log \o UpdateCalls
                /\ loc'.total_loss =
                      SumSeq([k \in 1..Len(get_labels(sample_spec)) |->
                                 loc.losses[get_labels(sample_spec)[k]]])
          /\ pc = "log" =>
                /\ pc' \in {"test", "error"}
                /\ pc' = "test" => TrainCount' = TrainCount + 1
          /\ eff'.opt_steps # eff.opt_steps =>
                pc = "update" /\ eff'.opt_steps = eff.opt_steps + 1
          /\ pc \in {"fetch", "forward", "eval", "update"} => monitor' = monitor]_vars

\* update_model has run on the losses 1 and 2 of two tasks: one optimizer
\* step, on the objective 3
C13_Witness ==
    /\ pc = "log"
    /\ DOMAIN loc.losses = {"affinity", "boundary"}
    /\ loc.losses["affinity"] = 1
    /\ loc.losses["boundary"] = 2
    /\ loc.total_loss = 3
    /\ eff.opt_log = <<"zero_grad", "backward", "step">>

----------------------------------------------------------------------------
(* Properties of the checkpoints *)

\* C14: a checkpoint at iteration i writes the model artifact of index i and
\* then the statistics artifact of the same index i: a step that writes an
\* artifact writes it under i, the statistics only when the model artifact
\* of i is there; so a statistics artifact exists only for an index a model
\* artifact exists for, also after an I/O failure in either write, and
\* when no write has failed and none is pending the two sets of indices are
\* the same (the iterations save_checkpoint has returned at).
C14_CheckpointArtifactsPaired ==
    /\ [](/\ DOMAIN disk.stats \subseteq disk.models
          /\ DOMAIN disk.stats = Range(eff.chkpts)
          /\ pc = "save_stats" => i \in disk.models /\ i \notin DOMAIN disk.stats
          /\ err # "IOError" /\ pc # "save_stats" => disk.models = DOMAIN disk.stats)
    /\ [][/\ disk'.models # disk.models =>
                /\ pc = "save_model"
                /\ disk'.models = disk.models \cup {i}
                /\ disk'.stats = disk.stats
          /\ disk'.stats # disk.stats =>
                /\ pc = "save_stats"
                /\ DOMAIN disk'.stats = DOMAIN disk.stats \cup {i}
                /\ disk'.stats[i] = monitor.hist
                /\ \A j \in DOMAIN disk.stats : disk'.stats[j] = disk.stats[j]]_vars

\* the write of the statistics artifact has failed at iteration 2, after the
\* checkpoint at 1: the models 1 and 2 are there, and the statistics of 1
C14_Witness ==
    /\ pc = "error"
    /\ err = "IOError"
    /\ i = 2
    /\ disk.models = {1, 2}
    /\ DOMAIN disk.stats = {1}

----------------------------------------------------------------------------
(* Properties of the time measurement *)

\* the value added to the numerator of iter_time of "train" by the step
TrainTimeLogged ==
    NumOf(monitor', "iter_time", "train") - NumOf(monitor, "iter_time", "train")

\* C15: on the logical clock (a model call takes one unit) the elapsed time
\* logged into "train" for an iteration is the time of its own forward pass,
\* whatever time run_validation took in the iteration before: when an
\* iteration starts, the clock of train reads zero, because it was set at
\* line 58 after the logging and again at line 63 after run_validation.
C15_ValidationTimeExcluded ==
    /\ [](/\ pc \in {"avgs", "chkpt", "save_model", "save_stats", "fetch", "forward"}
              => clk = 0
          /\ pc \in {"eval", "update", "log"} => clk = 1)
    /\ [][/\ (pc = "log" /\ pc' = "test") => TrainTimeLogged = 1 /\ clk' = 0
          /\ (pc = "vavgs" /\ pc' = "avgs") => clk = vi /\ clk' = 0
          /\ pc # "log" /\ ~(pc = "avgs" /\ AvgsDue(i)) => TrainTimeLogged = 0]_vars

\* the second iteration has logged its time after run_validation made a
\* pass in the first: two units of time for two iterations, three model calls
C15_Witness ==
    /\ pc = "test"
    /\ i = 1
    /\ eff.vals = <<0>>
    /\ eff.val_flushes = <<0>>
    /\ eff.model_calls = 3
    /\ monitor.num["train"]["iter_time"] = 2
    /\ monitor.denom["train"]["iter_time"] = 2

----------------------------------------------------------------------------
(* Properties of the accumulators at checkpoints and of the flush windows *)

\* save_checkpoint is running
AtCheckpoint == pc \in {"save_model", "save_stats"}

\* C16: when a checkpoint is taken the accumulators of "test" are zero, and
\* if chkpt_intv is a multiple of avgs_intv those of "train" are zero too,
\* the flush of that same iteration having run before the checkpoint; so a
\* checkpoint is taken with contributions to "train" that are not flushed
\* only if chkpt_intv is not a multiple of avgs_intv.
C16_CheckpointSeesFlushedStats ==
    AtCheckpoint =>
        /\ AccumulatorsZero("test")
        /\ params["chkpt_intv"] % params["avgs_intv"] = 0 =>
              /\ AccumulatorsZero("train")
              /\ TrainCount = 0
              /\ LastTrainFlush = i
        /\ (~AccumulatorsZero("train") \/ TrainCount > 0) =>
              params["chkpt_intv"] % params["avgs_intv"] # 0

\* the checkpoint at iteration 2 with chkpt_intv = 2 and avgs_intv = 1, after
\* a validation and the flush at 2: both phases hold metrics, all at zero
C16_Witness ==
    /\ pc = "save_stats"
    /\ i = 2
    /\ params["chkpt_intv"] = 2
    /\ params["avgs_intv"] = 1
    /\ eff.flushes = <<1, 2>>
    /\ eff.val_flushes # <<>>
    /\ "affinity" \in DOMAIN monitor.denom["test"]
    /\ "affinity" \in DOMAIN monitor.denom["train"]
    /\ AccumulatorsZero("train")

\* the iterations whose contributions are in the "train" accumulators: those
\* after the last flush that have passed the logging of line 53-57
Window ==
    Logged(IF pc \in {"fetch", "forward", "eval", "update", "log", "done"}
           THEN i - 1 ELSE i)

\* the iterations of the entries of a history
Iterations(h) == [k \in 1..Len(h) |-> h[k][1]]

\* C17: the "train" accumulators hold the contributions of exactly the
\* iterations that have logged since the last flush of "train", from
\* last_iter on if there was none (one count of iter_time each); each
\* iteration adds its losses, counts and time once, at its logging; a flush at
\* f appends for each metric one entry, the average of the accumulators, i.e.
\* of the iterations after the previous flush up to f, and resets them. So
\* an iteration is part of at most one entry, the first window starts with
\* last_iter, and what was logged after the last flush stays in the
\* accumulators when train returns.
C17_FlushWindows ==
    /\ [](Configured /\ pc \notin {"start", "spec", "error"} =>
            /\ TrainCount = Cardinality(Window)
            /\ NumOf(monitor, "iter_time", "train") = Cardinality(Window)
            /\ \A k \in DOMAIN monitor.hist["train"] :
                  Iterations(monitor.hist["train"][k]) = eff.flushes
            /\ pc = "done" =>
                  Window = {j \in last_iter..(params["max_iter"] - 1) :
                               j > LastTrainFlush})
    /\ [][/\ (pc = "log" /\ pc' = "test") =>
                /\ TrainCount' = TrainCount + 1
                /\ \A k \in DOMAIN loc.losses :
                      /\ NumOf(monitor', k, "train")
                            = NumOf(monitor, k, "train") + loc.losses[k]
                      /\ monitor'.denom["train"][k]
                            = (IF k \in DOMAIN monitor.denom["train"]
                               THEN monitor.denom["train"][k] ELSE 0) + loc.nmsks[k]
          /\ (pc = "avgs" /\ AvgsDue(i)) =>
                /\ Window = {j \in last_iter..i : j > LastTrainFlush}
                /\ eff.flushes = <<>> => last_iter \in Window
                /\ \A k \in Reported(loc.losses) :
                      /\ Len(HistOf(monitor', k, "train"))
                            = Len(HistOf(monitor, k, "train")) + 1
                      /\ get_last_value(monitor', k, "train")
                            = Avg(monitor.num["train"][k], monitor.denom["train"][k])
                /\ TrainCount' = 0
          /\ (pc # "log" /\ ~(pc = "avgs" /\ AvgsDue(i))) =>
                /\ monitor'.num["train"] = monitor.num["train"]
                /\ monitor'.denom["train"] = monitor.denom["train"]]_vars

\* the run max_iter = 10, avgs_intv = 5 from last_iter = 0 has returned: one
\* entry per metric, made at 5 from the iterations 0 to 5, and the
\* contributions of the iterations 6 to 9 in the accumulators
C17_Witness ==
    /\ pc = "done"
    /\ params = ExampleParams
    /\ eff.flushes = <<5>>
    /\ Len(HistOf(monitor, "affinity", "train")) = 1
    /\ TrainCount = 4
    /\ Window = 6..9

----------------------------------------------------------------------------
(* Properties of the reports *)

\* the iteration of the last history entry of the metric
LastIteration(m, k, ph) == LET h == HistOf(m, k, ph) IN h[Len(h)][1]

\* the flush of the step has made an entry at iteration i for each label
\* name and for iter_time, none of them skipped for a zero denominator
ReportedFresh(ph, losses) ==
    /\ Reported(losses) = Range(get_labels(sample_spec)) \cup {"iter_time"}
    /\ \A k \in Reported(losses) :
          /\ k \in DOMAIN monitor.denom[ph] /\ monitor.denom[ph][k] # 0
          /\ has_last_value(monitor', k, ph)
          /\ LastIteration(monitor', k, ph) = i
          /\ Len(HistOf(monitor', k, ph)) = Len(HistOf(monitor, k, ph)) + 1

\* C18: at every print of the train averages at iteration i and at every
\* report of run_validation at iteration i, the value printed for each label
\* name and for iter_time is that of a history entry appended by the flush
\* of the same iteration i: the flush skips none of them, so no
\* get_last_value fails or returns the value of an earlier flush.
C18_ReportsAreFresh ==
    /\ [](err # "LookupError")
    /\ [][/\ (pc = "avgs" /\ AvgsDue(i)) =>
                /\ pc' = "chkpt"
                /\ eff'.flushes = Append(eff.flushes, i)
                /\ ReportedFresh("train", loc.losses)
          /\ (pc = "vavgs" /\ pc' = "avgs") => ReportedFresh("test", vloc.losses)
          /\ (pc = "vavgs" /\ vloc.bound) => pc' = "avgs"]_vars

\* the third report of run_validation and the second print of the train
\* averages have been made, at iteration 2, from entries of iteration 2
C18_Witness ==
    /\ pc = "chkpt"
    /\ i = 2
    /\ eff.flushes = <<1, 2>>
    /\ eff.val_flushes = <<0, 1, 2>>
    /\ LastIteration(monitor, "affinity", "train") = 2
    /\ LastIteration(monitor, "iter_time", "test") = 2
    /\ Len(HistOf(monitor, "affinity", "test")) = 3

\* C19: run_validation completes for every num_iters >= 0: once its loop has
\* ended it calls compute_avgs(iter_num, "test") once and reports, no error
\* is raised, and the training loop goes on with line 63 and the guard of
\* line 65 of the same iteration.
C19_ValidationCompletesForAnyNumIters ==
    [][pc = "vavgs" =>
          /\ vi = params["test_iter"]
          /\ eff'.val_flushes = Append(eff.val_flushes, i)
          /\ pc' = "avgs"
          /\ err' = ""
          /\ i' = i]_vars

====
